---- MODULE Spec2Model ----
(***************************************************************************)
(* Model of the onstage onboarding wizard: the OnboardingProvider state    *)
(* container (src/src/context/OnboardingContext.tsx) and the part of the   *)
(* OnboardingModal (src/src/components/OnboardingModal.tsx) that reads it  *)
(* and binds user gestures to its operations.                              *)
(*                                                                         *)
(* Every action is one event handled to completion: the operation's        *)
(* setState calls are applied and the provider re-renders before the next  *)
(* event, so the closures of the next event capture the committed state.   *)
(* Array indices are 0-based as in the source; steps[i] of the source is   *)
(* steps[i + 1] of the TLA+ sequence.                                      *)
(***************************************************************************)
EXTENDS Integers, Sequences, FiniteSets, TLC

\* Longest step list the host supplies.
MaxSteps == 3
\* Most skipOnboarding() calls, and most finishOnboarding() calls, in one run.
MaxCalls == 2
\* Most calls of one operation within one event handler.
MaxBatch == 2

VARIABLES
  steps,             \* prop steps: the ordered list of steps (OnboardingStep[])
  defaultOpen,       \* prop defaultOpen as supplied: "true", "false" or "undefined"
  hasOnFinish,       \* whether the host supplied prop onFinish
  hasOnSkip,         \* whether the host supplied prop onSkip
  isOpen,            \* useState(defaultOpen)
  currentStepIndex,  \* useState(0)
  onFinishCount,     \* invocations of the host's onFinish so far
  onSkipCount,       \* invocations of the host's onSkip so far
  finishCalls,       \* calls of finishOnboarding() so far
  skipCalls,         \* calls of skipOnboarding() so far
  lastOp,            \* the context operation the last event called ("none": no operation)
  lastEvent,         \* the last event: "mount", "host" (a call through useOnboarding()) or a modal gesture
  advRun,            \* nextStep() calls since the index was last set to 0 with no prevStep() between (-1: none such)
  closedAt,          \* the index at the last close while no navigation or reset followed (-1: none such)
  stepsKind,         \* what the host passed as steps: "array", "nullish" (undefined or null) or "object" (a value with no length, such as {})
  error,             \* the error a render has thrown: "none", "construction" (the provider's render), "render" (the modal's render) or "hook" (useOnboarding)
  hook,              \* what the last useOnboarding() call did: whether it threw, and the value it returned
  modalProps,        \* the style props the host passes to OnboardingModal: theme, gradient, customGradientClass, style
  resolved           \* what the modal's render resolved from them (rendered = FALSE: not rendered yet)

vars == <<steps, defaultOpen, hasOnFinish, hasOnSkip, isOpen, currentStepIndex,
          onFinishCount, onSkipCount, finishCalls, skipCalls, lastOp, lastEvent,
          advRun, closedAt, stepsKind, error, hook, modalProps, resolved>>

theming == <<modalProps, resolved>>

props == <<steps, defaultOpen, hasOnFinish, hasOnSkip, stepsKind>>

----------------------------------------------------------------------------
(* Step lists.  A step is identified by a positive number (a truthy object). *)

StepList(n) == [i \in 1..n |-> i]

StepLists == {StepList(n) : n \in 0..MaxSteps}

DefaultOpenProps == {"true", "false", "undefined"}

\* What a host may pass as steps; TypeScript admits only the first.
StepsKinds == {"array", "nullish", "object"}

----------------------------------------------------------------------------
(* OnboardingProvider: construction.                                       *)

\* A mutant of the default parameter value: opens when defaultOpen is not supplied.
defaultOpenParam_open(p) == IF p = "undefined" THEN TRUE ELSE p = "true"

\* `defaultOpen = false` in the parameter list: the value when the prop is not supplied.
defaultOpenParam(p) == IF p = "undefined" THEN FALSE ELSE p = "true"

\* The state after the first render of the provider: the two useState initial values.
\* Construction calls neither callback.
OnboardingProvider(p) ==
  [isOpen |-> defaultOpenParam(p), currentStepIndex |-> 0,
   onFinishCount |-> 0, onSkipCount |-> 0]

\* The state of the provider as a record, the argument of the operations below.
State ==
  [isOpen |-> isOpen, currentStepIndex |-> currentStepIndex,
   onFinishCount |-> onFinishCount, onSkipCount |-> onSkipCount]

----------------------------------------------------------------------------
(* The context operations, as functions of the state.                      *)
(* nextStep and prevStep test the index (and length) their closure         *)
(* captured at the last render, and apply a functional update to the       *)
(* latest index.                                                           *)

\* A mutant of nextStep: no guard at the last index.
nextStep_unguarded(closureIndex, closureLen, prev) == prev + 1

\* A mutant of nextStep: the guard admits the last index.
nextStep_offByOne(closureIndex, closureLen, prev) ==
  IF closureIndex < closureLen THEN prev + 1 ELSE prev

nextStep(closureIndex, closureLen, prev) ==
  IF closureIndex < closureLen - 1 THEN prev + 1 ELSE prev

\* A mutant of prevStep: no guard at index 0.
prevStep_unguarded(closureIndex, prev) == prev - 1

prevStep(closureIndex, prev) ==
  IF closureIndex > 0 THEN prev - 1 ELSE prev

\* onFinish?.() and onSkip?.(): the callback is invoked when supplied.
optionalCall(supplied, count) == IF supplied THEN count + 1 ELSE count

\* A mutant of finishOnboarding: does nothing when the wizard is already closed.
finishOnboarding_dedup(s, supplied) ==
  IF s.isOpen
    THEN [s EXCEPT !.isOpen = FALSE, !.onFinishCount = optionalCall(supplied, @)]
    ELSE s

finishOnboarding(s, supplied) ==
  [s EXCEPT !.isOpen = FALSE, !.onFinishCount = optionalCall(supplied, @)]

\* A mutant of skipOnboarding: also returns to the first step.
skipOnboarding_rewind(s, supplied) ==
  [s EXCEPT !.isOpen = FALSE, !.currentStepIndex = 0,
            !.onSkipCount = optionalCall(supplied, @)]

skipOnboarding(s, supplied) ==
  [s EXCEPT !.isOpen = FALSE, !.onSkipCount = optionalCall(supplied, @)]

\* A mutant of resetOnboarding: reopens at the step the wizard was left at.
resetOnboarding_keepIndex(s) == [s EXCEPT !.isOpen = TRUE]

resetOnboarding(s) == [s EXCEPT !.currentStepIndex = 0, !.isOpen = TRUE]

\* setIsOpen is the state setter itself.
setIsOpen(s, flag) == [s EXCEPT !.isOpen = flag]

\* What the host's callback does to the controller while it runs: nothing,
\* or a call of resetOnboarding() through the hook.
CallbackBodies == {"nothing", "reset"}

callback(body, s) == IF body = "reset" THEN resetOnboarding(s) ELSE s

\* A mutant of finishOnboarding: the callback runs before the close is issued.
finishOnboardingWith_callbackFirst(s, supplied, body) ==
  LET called == IF supplied
                  THEN callback(body, [s EXCEPT !.onFinishCount = @ + 1])
                  ELSE s
  IN setIsOpen(called, FALSE)

\* finishOnboarding with the callback's own state requests: setIsOpen(false)
\* is queued first, then onFinish?.() runs and queues its requests; the
\* queue is applied in order.
finishOnboardingWith(s, supplied, body) ==
  LET closed == setIsOpen(s, FALSE)
  IN IF supplied
       THEN callback(body, [closed EXCEPT !.onFinishCount = @ + 1])
       ELSE closed

\* skipOnboarding likewise: setIsOpen(false), then onSkip?.().
skipOnboardingWith(s, supplied, body) ==
  LET closed == setIsOpen(s, FALSE)
  IN IF supplied
       THEN callback(body, [closed EXCEPT !.onSkipCount = @ + 1])
       ELSE closed

----------------------------------------------------------------------------
(* OnboardingModal: what one render computes from the context value.       *)

NoStep == 0

\* A mutant of isLastStep: compares with the length, not the last index.
isLastStep_offByOne(index, n) == index = n

\* const isLastStep = currentStepIndex === steps.length - 1
isLastStep(index, n) == index = n - 1

\* const isFirstStep = currentStepIndex === 0
isFirstStep(index) == index = 0

\* The primary button: {isLastStep ? <Button onClick={finishOnboarding}> :
\* <Button onClick={nextStep}>}.
PrimaryButton(last) == IF last THEN "finishOnboarding" ELSE "nextStep"

\* A mutant of the modal: no guard for an empty step list.
OnboardingModal_noEmptyGuard(stepList, index, open) ==
  LET n == Len(stepList)
      inRange == index >= 0 /\ index < n
      currentStep == IF inRange THEN stepList[index + 1]
                     ELSE IF n > 0 THEN stepList[1] ELSE NoStep
  IN [visible |-> open,
      outOfBoundsRead |-> ~inRange,
      currentStep |-> currentStep,
      isLastStep |-> isLastStep(index, n),
      isFirstStep |-> isFirstStep(index),
      primary |-> PrimaryButton(isLastStep(index, n)),
      backDisabled |-> isFirstStep(index),
      highlighted |-> {i \in 0..(n - 1) : i = index}]

\* `if (!steps || steps.length === 0) return null`, then
\* `steps[currentStepIndex] || steps[0]`, isLastStep, isFirstStep, then
\* `if (!isOpen) return null`, then the markup.
OnboardingModal(stepList, index, open) ==
  LET n == Len(stepList)
      inRange == index >= 0 /\ index < n
  IN IF n = 0
       THEN [visible |-> FALSE, outOfBoundsRead |-> FALSE, currentStep |-> NoStep,
             isLastStep |-> FALSE, isFirstStep |-> FALSE,
             primary |-> "none", backDisabled |-> TRUE, highlighted |-> {}]
       ELSE [visible |-> open,
             outOfBoundsRead |-> ~inRange,
             currentStep |-> IF inRange THEN stepList[index + 1] ELSE stepList[1],
             isLastStep |-> isLastStep(index, n),
             isFirstStep |-> isFirstStep(index),
             primary |-> PrimaryButton(isLastStep(index, n)),
             backDisabled |-> isFirstStep(index),
             highlighted |-> {i \in 0..(n - 1) : i = index}]

View == OnboardingModal(steps, currentStepIndex, isOpen)

\* A pointer or keyboard event as the Dialog hands it to the modal's handler.
DismissEvent == [defaultPrevented |-> FALSE]

\* A mutant of the dismiss handlers: the event is left as it came.
onPointerDownOutside_permissive(e) == e

\* onPointerDownOutside={(e) => e.preventDefault()}
onPointerDownOutside(e) == [e EXCEPT !.defaultPrevented = TRUE]

\* onEscapeKeyDown={(e) => e.preventDefault()}
onEscapeKeyDown(e) == [e EXCEPT !.defaultPrevented = TRUE]

\* <Dialog open={isOpen} onOpenChange={setIsOpen}>: after the handler ran, the
\* Dialog requests onOpenChange(false) unless the event's default was prevented.
DialogDismiss(s, e) == IF e.defaultPrevented THEN s ELSE setIsOpen(s, FALSE)

----------------------------------------------------------------------------
(* OnboardingModal: theme and gradient resolution.  A prop the host does   *)
(* not pass is "undefined"; a style object is a function from the keys it  *)
(* sets to their values.                                                   *)

EmptyStyle == [k \in {} |-> ""]

\* const THEMES: Record<OnboardingTheme, ThemeConfig>, its mode, gradient and
\* style entries (a theme with no style entry spreads as the empty object).
THEMES ==
  [light    |-> [defined |-> TRUE, mode |-> "light", gradient |-> "animated",
                 style |-> EmptyStyle],
   dark     |-> [defined |-> TRUE, mode |-> "dark", gradient |-> "animated",
                 style |-> EmptyStyle],
   minimal  |-> [defined |-> TRUE, mode |-> "light", gradient |-> "none",
                 style |-> [k \in {"--radius", "--primary", "--primary-foreground"} |->
                              CASE k = "--radius" -> "0px"
                                [] k = "--primary" -> "0 0% 0%"
                                [] OTHER -> "0 0% 100%"]],
   glass    |-> [defined |-> TRUE, mode |-> "dark", gradient |-> "animated",
                 style |-> [k \in {"--primary", "--primary-foreground", "--muted-foreground"} |->
                              CASE k = "--primary" -> "0 0% 100%"
                                [] k = "--primary-foreground" -> "0 0% 0%"
                                [] OTHER -> "0 0% 80%"]],
   midnight |-> [defined |-> TRUE, mode |-> "dark", gradient |-> "animated",
                 style |-> [k \in {"--background", "--foreground", "--primary",
                                   "--primary-foreground"} |->
                              CASE k = "--background" -> "222 47% 11%"
                                [] k = "--foreground" -> "210 40% 98%"
                                [] k = "--primary" -> "263 70% 50%"
                                [] OTHER -> "210 40% 98%"]],
   ocean    |-> [defined |-> TRUE, mode |-> "light", gradient |-> "animated",
                 style |-> [k \in {"--primary", "--primary-foreground"} |->
                              IF k = "--primary" THEN "199 89% 48%" ELSE "0 0% 100%"]],
   sunset   |-> [defined |-> TRUE, mode |-> "light", gradient |-> "animated",
                 style |-> [k \in {"--primary", "--primary-foreground"} |->
                              IF k = "--primary" THEN "24 90% 60%" ELSE "0 0% 100%"]]]

ThemeNames == DOMAIN THEMES

\* Names that are no key of THEMES itself but that a property read on the
\* object literal finds on Object.prototype.
InheritedNames == {"constructor"}

\* What such a read returns: a truthy value (a function) that has no mode,
\* gradient or style property.
InheritedValue ==
  [defined |-> TRUE, mode |-> "undefined", gradient |-> "undefined", style |-> EmptyStyle]

UndefinedValue ==
  [defined |-> FALSE, mode |-> "undefined", gradient |-> "undefined", style |-> EmptyStyle]

\* THEMES[theme], with `theme = "light"` for a prop that is not passed.
ThemeLookup(theme) ==
  LET name == IF theme = "undefined" THEN "light" ELSE theme
  IN IF name \in ThemeNames THEN THEMES[name]
     ELSE IF name \in InheritedNames THEN InheritedValue
     ELSE UndefinedValue

\* const activeTheme = THEMES[theme] || THEMES.light
ActiveTheme(theme) ==
  LET found == ThemeLookup(theme)
  IN IF found.defined THEN found ELSE THEMES["light"]

\* const finalGradient = gradient || activeTheme.gradient
FinalGradient(gradient, activeTheme) ==
  IF gradient # "undefined" THEN gradient ELSE activeTheme.gradient

\* { ...activeTheme.style, ...style }
MergeStyle(themeStyle, style) ==
  [k \in (DOMAIN themeStyle) \cup (DOMAIN style) |->
     IF k \in DOMAIN style THEN style[k] ELSE themeStyle[k]]

AnimatedGradientClass ==
  "bg-gradient-to-br from-primary/30 via-background to-primary/30 animate-gradient-flow"

StaticGradientClass == "bg-gradient-to-br from-primary/20 to-background"

NoLayer == "not rendered"

\* showGradient, defaultGradientClass, finalGradientClass, and the gradient
\* layer `{showGradient && <div className={cn(..., finalGradientClass)} />}`.
GradientLayer(finalGradient, customGradientClass) ==
  LET showGradient == finalGradient # "none"
      defaultGradientClass == IF finalGradient = "animated"
                                THEN AnimatedGradientClass
                                ELSE StaticGradientClass
      finalGradientClass == IF customGradientClass # "undefined"
                              THEN customGradientClass
                              ELSE defaultGradientClass
  IN IF showGradient THEN finalGradientClass ELSE NoLayer

\* One render's resolution of the style props.
ResolveTheme(p) ==
  LET activeTheme == ActiveTheme(p.theme)
      finalGradient == FinalGradient(p.gradient, activeTheme)
  IN [rendered |-> TRUE,
      activeTheme |-> activeTheme,
      finalGradient |-> finalGradient,
      isDarkMode |-> activeTheme.mode = "dark",
      mergedRootStyle |-> MergeStyle(activeTheme.style, p.style),
      gradientLayer |-> GradientLayer(finalGradient, p.customGradientClass)]

NotRendered == [rendered |-> FALSE]

\* The props of <OnboardingModal /> with nothing passed.
DefaultModalProps ==
  [theme |-> "undefined", gradient |-> "undefined",
   customGradientClass |-> "undefined", style |-> EmptyStyle]

\* The style props a host may pass.
CallerStyles ==
  {[k \in keys |-> "caller"] : keys \in SUBSET {"--primary", "--radius"}}

ModalPropsSet ==
  [theme : ThemeNames \cup InheritedNames \cup {"undefined", "neon"},
   gradient : {"undefined", "animated", "static", "none"},
   customGradientClass : {"undefined", "my-gradient"},
   style : CallerStyles]

----------------------------------------------------------------------------
(* The context and the hook that reads it.                                 *)

\* createContext(undefined): what useContext returns outside every provider.
OnboardingContextDefault ==
  [defined |-> FALSE, isOpen |-> FALSE, currentStepIndex |-> 0, steps |-> << >>]

\* The value the provider passes down: its state and its steps prop (the
\* operations it passes with them are the actions of this module).
ContextValue(s, stepList) ==
  [defined |-> TRUE, isOpen |-> s.isOpen, currentStepIndex |-> s.currentStepIndex,
   steps |-> stepList]

\* A mutant of useOnboarding: no check, the caller gets what useContext gave.
useOnboarding_unchecked(context) == [threw |-> FALSE, value |-> context]

\* `if (!context) throw new Error(...)`, else `return context`.
useOnboarding(context) ==
  IF ~context.defined
    THEN [threw |-> TRUE, value |-> OnboardingContextDefault]
    ELSE [threw |-> FALSE, value |-> context]

----------------------------------------------------------------------------
(* Errors thrown while rendering with a steps value that is no array.      *)

\* The provider's render evaluates `steps.length` for the dependency list of
\* nextStep: a TypeError when steps is undefined or null, undefined (no
\* error) when steps is a value without a length.
ProviderRenderThrows(kind) == kind = "nullish"

\* The modal's render with a steps value without a length: `!steps` and
\* `steps.length === 0` are both false, `steps[currentStepIndex] || steps[0]`
\* is undefined, a closed modal returns null, and an open one throws a
\* TypeError at `currentStep.image`.
ModalRenderThrows(kind, open) == kind = "object" /\ open

\* The error after a render pass: the provider renders first, then the modal.
ErrorAfterRender(kind, open) ==
  IF ProviderRenderThrows(kind) THEN "construction"
  ELSE IF ModalRenderThrows(kind, open) THEN "render"
  ELSE "none"

----------------------------------------------------------------------------
(* History bookkeeping for the properties; no operation reads it.          *)

AdvRunNext(op, old, new) ==
  CASE op = "resetOnboarding" -> 0
    [] op \in {"skipOnboarding", "finishOnboarding"} /\ new.isOpen -> 0
    [] op = "nextStep" -> IF advRun = -1 THEN -1
                          ELSE IF advRun < MaxSteps THEN advRun + 1 ELSE advRun
    [] op = "prevStep" -> -1
    [] op \in {"nextStepBatch", "prevStepBatch"} -> -1
    [] OTHER -> advRun

ClosedAtNext(op, old, new) ==
  CASE op \in {"skipOnboarding", "finishOnboarding"} /\ ~new.isOpen -> old.currentStepIndex
    [] op \in {"skipOnboarding", "finishOnboarding"} /\ new.isOpen -> -1
    [] op = "setIsOpen" /\ ~new.isOpen -> old.currentStepIndex
    [] op = "setIsOpen" /\ new.isOpen -> closedAt
    [] op \in {"nextStep", "prevStep", "resetOnboarding"} -> -1
    [] op \in {"nextStepBatch", "prevStepBatch"} -> -1
    [] OTHER -> closedAt

\* The event's state updates are applied and the provider re-renders.
Commit(new, op, event) ==
  /\ UNCHANGED theming
  /\ error = "none"
  /\ error' = ErrorAfterRender(stepsKind, new.isOpen)
  /\ hook' = useOnboarding(ContextValue(new, steps))
  /\ isOpen' = new.isOpen
  /\ currentStepIndex' = new.currentStepIndex
  /\ onFinishCount' = new.onFinishCount
  /\ onSkipCount' = new.onSkipCount
  /\ finishCalls' = IF op = "finishOnboarding" THEN finishCalls + 1 ELSE finishCalls
  /\ skipCalls' = IF op = "skipOnboarding" THEN skipCalls + 1 ELSE skipCalls
  /\ lastOp' = op
  /\ lastEvent' = event
  /\ advRun' = AdvRunNext(op, State, new)
  /\ closedAt' = ClosedAtNext(op, State, new)

----------------------------------------------------------------------------
(* Initial states: the provider mounted with any props.                    *)

\* A steps value that is no array has no elements and no length; the model
\* keeps the empty list for it, on which the guards of nextStep and prevStep
\* come out as they do on an undefined length (false).
Mount(kinds) ==
  /\ stepsKind \in kinds
  /\ steps \in (IF stepsKind = "array" THEN StepLists ELSE {StepList(0)})
  /\ defaultOpen \in DefaultOpenProps
  /\ hasOnFinish \in BOOLEAN
  /\ hasOnSkip \in BOOLEAN
  /\ isOpen = OnboardingProvider(defaultOpen).isOpen
  /\ currentStepIndex = OnboardingProvider(defaultOpen).currentStepIndex
  /\ onFinishCount = OnboardingProvider(defaultOpen).onFinishCount
  /\ onSkipCount = OnboardingProvider(defaultOpen).onSkipCount
  /\ finishCalls = 0
  /\ skipCalls = 0
  /\ lastOp = "none"
  /\ lastEvent = "mount"
  /\ advRun = 0
  /\ closedAt = -1
  /\ error = ErrorAfterRender(stepsKind, isOpen)
  /\ hook = useOnboarding(ContextValue(State, steps))

\* The wizard runs with <OnboardingModal /> given no style props.
Init ==
  /\ Mount({"array"})
  /\ modalProps = DefaultModalProps
  /\ resolved = NotRendered

----------------------------------------------------------------------------
(* Events from the host: calls through useOnboarding().                    *)

NextStep ==
  /\ Commit([State EXCEPT !.currentStepIndex =
               nextStep(currentStepIndex, Len(steps), currentStepIndex)],
            "nextStep", "host")
  /\ UNCHANGED props

PrevStep ==
  /\ Commit([State EXCEPT !.currentStepIndex =
               prevStep(currentStepIndex, currentStepIndex)],
            "prevStep", "host")
  /\ UNCHANGED props

SkipOnboarding ==
  /\ skipCalls < MaxCalls
  /\ Commit(skipOnboarding(State, hasOnSkip), "skipOnboarding", "host")
  /\ UNCHANGED props

FinishOnboarding ==
  /\ finishCalls < MaxCalls
  /\ Commit(finishOnboarding(State, hasOnFinish), "finishOnboarding", "host")
  /\ UNCHANGED props

ResetOnboarding ==
  /\ Commit(resetOnboarding(State), "resetOnboarding", "host")
  /\ UNCHANGED props

SetIsOpen ==
  \E flag \in BOOLEAN :
    /\ Commit(setIsOpen(State, flag), "setIsOpen", "host")
    /\ UNCHANGED props

----------------------------------------------------------------------------
(* Events from the user: gestures on the visible modal.                    *)

\* "Next", rendered when the step is not the last: onClick={nextStep}.
ClickNext ==
  /\ View.visible
  /\ View.primary = "nextStep"
  /\ Commit([State EXCEPT !.currentStepIndex =
               nextStep(currentStepIndex, Len(steps), currentStepIndex)],
            "nextStep", "clickNext")
  /\ UNCHANGED props

\* "Get Started", rendered on the last step: onClick={finishOnboarding}.
ClickGetStarted ==
  /\ View.visible
  /\ View.primary = "finishOnboarding"
  /\ finishCalls < MaxCalls
  /\ Commit(finishOnboarding(State, hasOnFinish), "finishOnboarding", "clickGetStarted")
  /\ UNCHANGED props

\* "Back": onClick={prevStep}, disabled={isFirstStep}.
ClickBack ==
  /\ View.visible
  /\ ~View.backDisabled
  /\ Commit([State EXCEPT !.currentStepIndex =
               prevStep(currentStepIndex, currentStepIndex)],
            "prevStep", "clickBack")
  /\ UNCHANGED props

\* "Skip": onClick={skipOnboarding}.
ClickSkip ==
  /\ View.visible
  /\ skipCalls < MaxCalls
  /\ Commit(skipOnboarding(State, hasOnSkip), "skipOnboarding", "clickSkip")
  /\ UNCHANGED props

\* A click on the overlay.
PointerDownOutside ==
  /\ View.visible
  /\ Commit(DialogDismiss(State, onPointerDownOutside(DismissEvent)),
            "none", "pointerDownOutside")
  /\ UNCHANGED props

\* The Escape key.
EscapeKeyDown ==
  /\ View.visible
  /\ Commit(DialogDismiss(State, onEscapeKeyDown(DismissEvent)),
            "none", "escapeKeyDown")
  /\ UNCHANGED props

----------------------------------------------------------------------------

Next ==
  \/ NextStep
  \/ PrevStep
  \/ SkipOnboarding
  \/ FinishOnboarding
  \/ ResetOnboarding
  \/ SetIsOpen
  \/ ClickNext
  \/ ClickGetStarted
  \/ ClickBack
  \/ ClickSkip
  \/ PointerDownOutside
  \/ EscapeKeyDown

Spec == Init /\ [][Next]_vars

----------------------------------------------------------------------------
(* The host re-renders the provider with another steps prop.  The provider *)
(* keeps its two useState cells; nothing in it reads the change.           *)

SetSteps ==
  \E newSteps \in StepLists \ {steps} :
    /\ steps' = newSteps
    /\ lastOp' = "none"
    /\ lastEvent' = "setSteps"
    /\ hook' = useOnboarding(ContextValue(State, newSteps))
    /\ UNCHANGED <<defaultOpen, hasOnFinish, hasOnSkip, isOpen, currentStepIndex,
                   onFinishCount, onSkipCount, finishCalls, skipCalls, advRun, closedAt,
                   stepsKind, error, theming>>

NextSwap ==
  \/ Next
  \/ SetSteps

SpecSwap == Init /\ [][NextSwap]_vars

----------------------------------------------------------------------------
(* The provider mounted with whatever the host passes as steps.            *)

InitConfig ==
  /\ Mount(StepsKinds)
  /\ modalProps = DefaultModalProps
  /\ resolved = NotRendered

SpecConfig == InitConfig /\ [][Next]_vars

----------------------------------------------------------------------------
(* A component that is no descendant of the provider calls useOnboarding() *)
(* while it renders.  The error it throws ends the rendering of the tree.  *)

UseOnboardingOutside ==
  /\ error = "none"
  /\ hook' = useOnboarding(OnboardingContextDefault)
  /\ error' = IF hook'.threw THEN "hook" ELSE "none"
  /\ lastOp' = "none"
  /\ lastEvent' = "useOnboardingOutside"
  /\ UNCHANGED <<props, isOpen, currentStepIndex, onFinishCount, onSkipCount,
                 finishCalls, skipCalls, advRun, closedAt, theming>>

NextHook ==
  \/ Next
  \/ UseOnboardingOutside

SpecHook == Init /\ [][NextHook]_vars

----------------------------------------------------------------------------
(* A host event handler that calls nextStep() (or prevStep()) k times on   *)
(* the context value of one render.  Every call tests the index and length *)
(* its closure captured at that render; the updates queue up and each is   *)
(* applied to the result of the one before, at the re-render that follows  *)
(* the handler.                                                            *)

RECURSIVE nextStepTimes(_, _, _, _)
nextStepTimes(k, closureIndex, closureLen, prev) ==
  IF k = 0 THEN prev
  ELSE nextStepTimes(k - 1, closureIndex, closureLen,
                     nextStep(closureIndex, closureLen, prev))

RECURSIVE prevStepTimes(_, _, _)
prevStepTimes(k, closureIndex, prev) ==
  IF k = 0 THEN prev
  ELSE prevStepTimes(k - 1, closureIndex, prevStep(closureIndex, prev))

NextStepBatch ==
  \E k \in 2..MaxBatch :
    /\ Commit([State EXCEPT !.currentStepIndex =
                 nextStepTimes(k, currentStepIndex, Len(steps), currentStepIndex)],
              "nextStepBatch", "hostBatch")
    /\ UNCHANGED props

PrevStepBatch ==
  \E k \in 2..MaxBatch :
    /\ Commit([State EXCEPT !.currentStepIndex =
                 prevStepTimes(k, currentStepIndex, currentStepIndex)],
              "prevStepBatch", "hostBatch")
    /\ UNCHANGED props

NextBatch ==
  \/ Next
  \/ NextStepBatch
  \/ PrevStepBatch

SpecBatch == Init /\ [][NextBatch]_vars

----------------------------------------------------------------------------
(* finishOnboarding() and skipOnboarding() with a host callback that may   *)
(* call back into the controller.                                          *)

CallbackEvent(body) ==
  IF body = "reset" THEN "hostCallbackResets" ELSE "hostCallbackPlain"

FinishOnboardingReentrant ==
  \E body \in CallbackBodies :
    /\ hasOnFinish
    /\ finishCalls < MaxCalls
    /\ Commit(finishOnboardingWith(State, hasOnFinish, body),
              "finishOnboarding", CallbackEvent(body))
    /\ UNCHANGED props

SkipOnboardingReentrant ==
  \E body \in CallbackBodies :
    /\ hasOnSkip
    /\ skipCalls < MaxCalls
    /\ Commit(skipOnboardingWith(State, hasOnSkip, body),
              "skipOnboarding", CallbackEvent(body))
    /\ UNCHANGED props

NextReentrant ==
  \/ Next
  \/ FinishOnboardingReentrant
  \/ SkipOnboardingReentrant

SpecReentrant == Init /\ [][NextReentrant]_vars

----------------------------------------------------------------------------
(* The open modal of a one-step wizard rendered with any style props.      *)

InitTheme ==
  /\ Mount({"array"})
  /\ steps = StepList(1)
  /\ defaultOpen = "true"
  /\ ~hasOnFinish
  /\ ~hasOnSkip
  /\ modalProps \in ModalPropsSet
  /\ resolved = NotRendered

RenderTheme ==
  /\ View.visible
  /\ ~resolved.rendered
  /\ resolved' = ResolveTheme(modalProps)
  /\ UNCHANGED <<props, isOpen, currentStepIndex, onFinishCount, onSkipCount,
                 finishCalls, skipCalls, lastOp, lastEvent, advRun, closedAt,
                 error, hook, modalProps>>

SpecTheme == InitTheme /\ [][RenderTheme]_vars

----------------------------------------------------------------------------
(* Runs driven by the user alone: only gestures on the modal.              *)

NextGestures ==
  \/ ClickNext
  \/ ClickGetStarted
  \/ ClickBack
  \/ ClickSkip
  \/ PointerDownOutside
  \/ EscapeKeyDown

SpecGestures == Init /\ [][NextGestures]_vars

----------------------------------------------------------------------------
(* Properties.                                                             *)

Min(a, b) == IF a < b THEN a ELSE b

Max(a, b) == IF a > b THEN a ELSE b

N == Len(steps)

C2_AdvanceReachesLastStep ==
  /\ [](N >= 1 /\ advRun >= 0 =>
          /\ currentStepIndex = Min(advRun, N - 1)
          /\ View.isLastStep = (advRun >= N - 1))
  /\ [][lastOp' = "nextStep" =>
          /\ isOpen' = isOpen
          /\ currentStepIndex' = IF currentStepIndex < N - 1
                                   THEN currentStepIndex + 1
                                   ELSE currentStepIndex]_vars

\* N nextStep() calls were made from index 0: the last step was reached by the
\* first N-1 and the N-th left it there.
C2_Witness ==
  /\ N >= 2
  /\ advRun = N
  /\ View.isLastStep
  /\ lastOp = "nextStep"

\* C3: prevStep() subtracts exactly 1 from the index when it is above 0, leaves
\* the state unchanged at index 0 (the first step stays the first step), and
\* never changes isOpen.
C3_RetreatStopsAtFirstStep ==
  [][lastOp' = "prevStep" =>
       /\ isOpen' = isOpen
       /\ currentStepIndex' = IF currentStepIndex > 0
                                THEN currentStepIndex - 1
                                ELSE currentStepIndex
       /\ (currentStepIndex = 0 => currentStepIndex' = 0)
       /\ onFinishCount' = onFinishCount
       /\ onSkipCount' = onSkipCount]_vars

\* prevStep() ran on a one-step list, where the index can only have been 0.
C3_Witness ==
  /\ N = 1
  /\ lastOp = "prevStep"
  /\ currentStepIndex = 0
  /\ isOpen

\* C4: with the callback supplied, onSkip has been invoked as often as
\* skipOnboarding() was called and onFinish as often as finishOnboarding() was
\* called, open or closed; without the callback there is nothing to invoke.
\* Each step invokes onFinish only if it is a finishOnboarding() call and
\* onSkip only if it is a skipOnboarding() call, and both calls leave the
\* wizard closed whether or not the callback is supplied.
C4_OneCallbackPerCall ==
  /\ [](/\ onFinishCount = (IF hasOnFinish THEN finishCalls ELSE 0)
        /\ onSkipCount = (IF hasOnSkip THEN skipCalls ELSE 0))
  /\ [][/\ onFinishCount' - onFinishCount =
             (IF lastOp' = "finishOnboarding" /\ finishCalls' # finishCalls /\ hasOnFinish
                THEN 1 ELSE 0)
        /\ onSkipCount' - onSkipCount =
             (IF lastOp' = "skipOnboarding" /\ skipCalls' # skipCalls /\ hasOnSkip
                THEN 1 ELSE 0)
        /\ (finishCalls' # finishCalls \/ skipCalls' # skipCalls => ~isOpen')
        /\ (finishCalls' # finishCalls => lastOp' = "finishOnboarding")
        /\ (skipCalls' # skipCalls => lastOp' = "skipOnboarding")]_vars

\* finishOnboarding() was called twice and onFinish invoked twice, and
\* skipOnboarding() was called with no onSkip supplied.
C4_Witness ==
  /\ hasOnFinish
  /\ onFinishCount = 2
  /\ lastOp = "finishOnboarding"
  /\ ~hasOnSkip
  /\ skipCalls > 0
  /\ ~isOpen

\* C5: skipOnboarding(), finishOnboarding() and setIsOpen(flag) leave the index
\* unchanged; a wizard closed at step i is at step i until a navigation or a
\* reset, also after setIsOpen(true) reopened it.
C5_CloseKeepsIndex ==
  /\ [](closedAt # -1 => currentStepIndex = closedAt)
  /\ [][lastOp' \in {"skipOnboarding", "finishOnboarding", "setIsOpen"} =>
          currentStepIndex' = currentStepIndex]_vars

\* The wizard was closed at a step other than the first and reopened by
\* setIsOpen(true).
C5_Witness ==
  /\ isOpen
  /\ lastOp = "setIsOpen"
  /\ closedAt > 0
  /\ currentStepIndex = closedAt

\* C6: resetOnboarding() can be called in every reachable state, and every
\* call yields isOpen = TRUE and index 0.
C6_ResetAlwaysReopensAtZero ==
  /\ ENABLED ResetOnboarding
  /\ ~ENABLED (ResetOnboarding /\ ~(isOpen' /\ currentStepIndex' = 0))

\* resetOnboarding() ran after the wizard had been finished on a list of
\* several steps.
C6_Witness ==
  /\ lastOp = "resetOnboarding"
  /\ finishCalls > 0
  /\ N > 1
  /\ isOpen
  /\ currentStepIndex = 0

\* C7: right after construction the index is 0, isOpen is the defaultOpen prop,
\* FALSE when the prop is not supplied, and no callback has been invoked.
C7_InitialState ==
  lastEvent = "mount" =>
    /\ currentStepIndex = 0
    /\ isOpen = (defaultOpen = "true")
    /\ onFinishCount = 0
    /\ onSkipCount = 0

\* The provider was constructed without a defaultOpen prop.
C7_Witness ==
  /\ lastEvent = "mount"
  /\ defaultOpen = "undefined"
  /\ ~isOpen

C9_EmptyStepsDefined ==
  N = 0 =>
    /\ currentStepIndex = 0
    /\ ~View.visible
    /\ ~View.outOfBoundsRead
    /\ View.currentStep = NoStep

\* nextStep() ran on an empty list that setIsOpen(true) or resetOnboarding()
\* had opened.
C9_Witness ==
  /\ N = 0
  /\ isOpen
  /\ lastOp = "nextStep"

\* C10: after the host replaced the steps list, the index is within the new
\* list: 0 <= currentStepIndex < max(1, length(steps)).
C10_SwapResetsIndex ==
  lastEvent = "setSteps" =>
    (0 <= currentStepIndex /\ currentStepIndex < Max(1, N))

\* C11: a steps value that is no array is reported at construction: in every
\* state of a provider given such a value the error of its construction has
\* been raised, before any render of the modal and before any operation.
C11_MalformedStepsFailAtConstruction ==
  stepsKind # "array" => error = "construction"

\* C12: useOnboarding() called outside a provider throws and hands out
\* nothing; called inside a provider (as the modal does at every render) it
\* does not throw and returns the provider's current state and steps.
C12_HookOnlyInsideProvider ==
  IF lastEvent = "useOnboardingOutside"
    THEN /\ hook.threw
         /\ ~hook.value.defined
         /\ error = "hook"
    ELSE /\ ~hook.threw
         /\ hook.value.defined
         /\ hook.value.isOpen = isOpen
         /\ hook.value.currentStepIndex = currentStepIndex
         /\ hook.value.steps = steps

\* A component outside the provider called useOnboarding() after the wizard
\* had been opened and advanced.
C12_Witness ==
  /\ lastEvent = "useOnboardingOutside"
  /\ hook.threw
  /\ isOpen
  /\ currentStepIndex > 0

\* C13: in permissive mode, the documented default of allowClickOutside, a
\* click on the overlay or the Escape key closes the open modal.  The modal
\* declares no allowClickOutside prop and reads none, so every gesture of the
\* model is a gesture at the default.
C13_PermissiveDismissCloses ==
  [][(isOpen /\ lastEvent' \in {"pointerDownOutside", "escapeKeyDown"}) => ~isOpen']_vars

\* C14: in runs driven by the modal's gestures alone over a list of N >= 1
\* steps, the visible modal binds its primary button to finishOnboarding at
\* index N-1 and to nextStep at every other index and disables Back exactly
\* at index 0; finishOnboarding is called, and onFinish invoked, only from
\* index N-1.
C14_FinishOnlyFromLastStep ==
  /\ [](N >= 1 /\ View.visible =>
          /\ (View.primary = "finishOnboarding") = (currentStepIndex = N - 1)
          /\ (View.primary = "nextStep") = (currentStepIndex # N - 1)
          /\ View.backDisabled = (currentStepIndex = 0))
  /\ [][(onFinishCount' # onFinishCount \/ finishCalls' # finishCalls) =>
          (N >= 1 /\ currentStepIndex = N - 1 /\ currentStepIndex' = N - 1)]_vars

\* The user clicked through a list of several steps and pressed Get Started.
C14_Witness ==
  /\ N >= 2
  /\ lastEvent = "clickGetStarted"
  /\ onFinishCount = 1
  /\ currentStepIndex = N - 1
  /\ ~isOpen

\* C15: in every reachable state the modal shows content exactly when isOpen
\* holds and steps is not empty; the step it shows is steps[currentStepIndex],
\* read within the list and never the steps[0] fallback, and exactly one
\* indicator, the one at currentStepIndex, is highlighted.
C15_ModalShowsCurrentStep ==
  /\ View.visible = (isOpen /\ N > 0)
  /\ View.visible =>
       /\ ~View.outOfBoundsRead
       /\ currentStepIndex >= 0
       /\ currentStepIndex < N
       /\ View.currentStep = steps[currentStepIndex + 1]
       /\ View.highlighted = {currentStepIndex}
       /\ Cardinality(View.highlighted) = 1

\* C16: after an event handler called nextStep() or prevStep() two or more
\* times on the context value of one render, the committed index is within
\* 0..N-1.
C16_BatchedNavigationStaysInBounds ==
  (N >= 1 /\ lastEvent = "hostBatch") =>
    (0 <= currentStepIndex /\ currentStepIndex <= N - 1)

\* C17: from every state with the modal visible, also after the host replaced
\* steps by a shorter list, pressing the primary button again and again ends
\* in finishOnboarding; for that, no reachable state shows a Next button whose
\* press leaves the index where it is.
C17_NextButtonAlwaysAdvances ==
  ~ENABLED (ClickNext /\ currentStepIndex' = currentStepIndex)

\* C18: finishOnboarding() and skipOnboarding() issue the close before they
\* invoke the callback, inside the same operation; so after a call whose
\* callback called resetOnboarding() the wizard is open at index 0, after a
\* call whose callback requested nothing it is closed with the index kept,
\* and in both the callback has run once when the operation completes.
C18_CallbackRunsAfterClose ==
  /\ [](/\ (lastEvent = "hostCallbackResets" => (isOpen /\ currentStepIndex = 0))
        /\ (lastEvent = "hostCallbackPlain" => ~isOpen))
  /\ [][lastEvent' \in {"hostCallbackResets", "hostCallbackPlain"} =>
          /\ (lastOp' = "finishOnboarding" =>
                (onFinishCount' = onFinishCount + 1 /\ onSkipCount' = onSkipCount))
          /\ (lastOp' = "skipOnboarding" =>
                (onSkipCount' = onSkipCount + 1 /\ onFinishCount' = onFinishCount))
          /\ (lastEvent' = "hostCallbackPlain" =>
                currentStepIndex' = currentStepIndex)]_vars

\* finishOnboarding() ran with an onFinish that called resetOnboarding(), on
\* a list of several steps.
C18_Witness ==
  /\ lastEvent = "hostCallbackResets"
  /\ lastOp = "finishOnboarding"
  /\ N >= 2
  /\ onFinishCount = 1
  /\ isOpen
  /\ currentStepIndex = 0

\* The theme a name stands for: its entry in the theme table, and the light
\* theme for a name the table does not have.
ThemeOf(name) == IF name \in ThemeNames THEN THEMES[name] ELSE THEMES["light"]

\* C19: style props resolve in layers, explicit override > named theme > base
\* default: for every theme and every combination of caller props the
\* effective gradient is the gradient prop when given and the theme's gradient
\* otherwise, every root style key the caller gives wins over the theme's
\* value, theme keys not overridden are kept, and a theme name that is not in
\* the theme table resolves to the light theme.
C19_LayeredStyleResolution ==
  resolved.rendered =>
    LET theme == ThemeOf(modalProps.theme)
        merged == resolved.mergedRootStyle
    IN /\ resolved.activeTheme = theme
       /\ resolved.finalGradient = IF modalProps.gradient # "undefined"
                                     THEN modalProps.gradient
                                     ELSE theme.gradient
       /\ \A k \in DOMAIN modalProps.style :
            k \in DOMAIN merged /\ merged[k] = modalProps.style[k]
       /\ \A k \in (DOMAIN theme.style) \ (DOMAIN modalProps.style) :
            k \in DOMAIN merged /\ merged[k] = theme.style[k]

\* C20: when customGradientClass is set it overrides the gradient prop: for
\* every value of gradient (animated, static, none) the gradient layer is
\* rendered, with the custom class and not the class derived from gradient.
C20_CustomGradientClassOverrides ==
  (resolved.rendered /\ modalProps.customGradientClass # "undefined") =>
    resolved.gradientLayer = modalProps.customGradientClass

====
